---- MODULE Spec2Model ----
(***************************************************************************)
(* The in-memory mock API of the vanilla JS banking demo                   *)
(* (02-vanilla-js-enhancement/js/apiClient.js): session store, account     *)
(* ledger, transaction list and the transfer workflow                      *)
(* initiate -> sendOtp -> verifyOtp -> confirm.                            *)
(*                                                                         *)
(* Money is counted in cents (4280.75 is 428075), time in milliseconds     *)
(* since the page was loaded (Date.now() at load is 0).  Ids that the code *)
(* draws with makeId are fresh ids numbered in order of creation.  Fields  *)
(* the mock never reads back (names, account numbers, currency,            *)
(* descriptions, a transfer's createdAt) are left out.                     *)
(*                                                                         *)
(* Every API call is one action: the only await of a handler that is       *)
(* followed by a change of mockState is the one on requireAuth, and the    *)
(* rest of the handler runs without yielding.  handleFailure always        *)
(* throws, so a failing check ends the call with that errorCode.           *)
(* SpecAsync splits the calls at that await and interleaves them.          *)
(*                                                                         *)
(* What handleFailure shows on its way to the throw (toast, officer        *)
(* lookup, modal) leaves mockState alone and is followed separately:       *)
(* SpecOfficer for the officer lookup and its cache, SpecModal for         *)
(* js/ui/modal.js.  SpecApi sends the calls through apiRequest and the     *)
(* router; SpecPages follows the login, register and dashboard pages       *)
(* across page loads, with localStorage the only thing that stays.         *)
(***************************************************************************)
EXTENDS Integers, Sequences, FiniteSets, TLC

VARIABLES
    users,          \* mockState.users: sequence of [id, email, password]
    tokens,         \* mockState.tokens: function token -> user id
    accounts,       \* mockState.accounts: sequence of [id, userId, balance]
    transactions,   \* mockState.transactions: sequence of [id, accountId, amount, createdAt]
    transfers,      \* mockState.transfers: function transferId -> transfer record
    now,            \* Date.now(), in ms since the page was loaded
    resp,           \* the last API call: its arguments and what it returned or threw
    verifiedOnce,   \* history: the transferIds on which a verifyOtp call has succeeded
    wrongTotal,     \* history: per transferId, the OTP_INVALID failures so far (counted up to OTP_MAX_ATTEMPTS)
    inflight,       \* the calls suspended at `await requireAuth(authToken)`: sequence of [op, tok, arg]
    cachedOfficerContact, \* apiClient.js `let cachedOfficerContact`: <<>> for null, else <<officer>>
    fetches,        \* history: the requests issued for /shared/officer-contact.json
    failures,       \* history: the handleFailure calls begun
    lookups,        \* the handleFailure calls suspended in fetchOfficerContact: sequence of [id, stage, officer]
    localStorage,   \* window.localStorage["bankly:authToken"], "" when absent
    page,           \* the page that is loaded
    navigating,     \* the page window.location.href has been set to, "" when none
    registered,     \* history: the <<email, password>> pairs register has accepted, over all page loads
    modalRoot,      \* modal.js `let modalRoot`: TRUE once it holds the #modal-root element
    currentOverlay, \* modal.js `let currentOverlay`: the overlay's number, 0 for undefined or null
    restoreFocusEl, \* modal.js `let restoreFocusEl`: an element, "" for undefined or null
    document,       \* the DOM: [root, children, keydown, overflow, activeElement, buttons]
    overlays        \* history: the overlay elements created so far

\* modal.js and the document it works on
modalVars == <<modalRoot, currentOverlay, restoreFocusEl, document, overlays>>

\* what the browser and the page keep outside mockState
ui == <<cachedOfficerContact, fetches, failures, lookups, localStorage, page, navigating, registered,
        modalVars>>

vars == <<users, tokens, accounts, transactions, transfers, now, resp, verifiedOnce, wrongTotal, inflight, ui>>

state == <<users, tokens, accounts, transactions, transfers>>

-----------------------------------------------------------------------------
(* Bounds of the model *)

MaxTokens == 2          \* tokens issued by register and login
MaxTransfers == 1       \* transfers created by initiate
MaxConfirms == 2        \* transaction records appended by confirm
MaxTicks == 2           \* steps of the clock
MaxInFlight == 2        \* calls suspended at an await at one time
MaxFailures == 4        \* handleFailure calls in one page session
MaxOverlays == 3        \* overlay elements created by openModal

(* Program constants *)

OTP_TTL == 5 * 60 * 1000
OTP_MAX_ATTEMPTS == 5
SeedBalance1 == 428075  \* acct-1: 4280.75
SeedBalance2 == 1325035 \* acct-2: 13250.35

MinPasswordLength == 6  \* initLogin: password.length < 6 is turned away by the form
MinRegisterPasswordLength == 8  \* initRegister: password.length < 8 is turned away by the form

NoUser == ""            \* undefined user id
Ext == "0011223344"     \* an external account number typed into the transfer form

\* the document of a page that index.js has started: initModalSystem has made
\* sure of #modal-root, nothing is mounted in it, no keydown listener of a
\* modal, scrolling free, focus on the body
FreshDocument ==
    [root |-> TRUE, children |-> <<>>, keydown |-> <<>>, overflow |-> "", activeElement |-> "body",
     buttons |-> {}]

\* a freshly loaded page: nothing cached, no failure shown yet
InitUi ==
    /\ cachedOfficerContact = <<>>
    /\ fetches = 0
    /\ failures = 0
    /\ lookups = <<>>
    /\ localStorage = ""
    /\ page = "login.html"
    /\ navigating = ""
    /\ registered = {}
    /\ modalRoot = FALSE
    /\ currentOverlay = 0
    /\ restoreFocusEl = ""
    /\ document = FreshDocument
    /\ overlays = 0

-----------------------------------------------------------------------------
(* Helpers *)

\* Array.prototype.find / findIndex: the first index whose element passes, 0 if none
Find(seq, Test(_)) ==
    LET hits == {i \in 1..Len(seq) : Test(seq[i])}
    IN  IF hits = {} THEN 0 ELSE CHOOSE i \in hits : \A j \in hits : i <= j

\* Array.prototype.filter
Filter(seq, Test(_)) == SelectSeq(seq, Test)

\* makeId(prefix): a fresh id
makeId(prefix, n) == prefix \o "-" \o ToString(n)

\* Array.prototype.sort((a, b) => b.createdAt - a.createdAt): stable insertion
RECURSIVE InsertDesc(_, _)
InsertDesc(sorted, tx) ==
    IF sorted = <<>> THEN <<tx>>
    ELSE IF Head(sorted).createdAt >= tx.createdAt
         THEN <<Head(sorted)>> \o InsertDesc(Tail(sorted), tx)
         ELSE <<tx>> \o sorted

RECURSIVE SortDesc(_)
SortDesc(seq) ==
    IF seq = <<>> THEN <<>>
    ELSE InsertDesc(SortDesc(SubSeq(seq, 1, Len(seq) - 1)), seq[Len(seq)])

\* makeReferenceCode: `REF-${rand()}-${rand()}`, rand() being up to 4 characters
\* of Math.random().toString(36)
makeReferenceCode(rand1, rand2) == "REF-" \o rand1 \o "-" \o rand2

\* The shortest rand(): Math.random() = 0 prints as "0", whose substring(2, 6) is empty
ShortestRand == ""

\* handleFailure: the normalizedError it throws
handleFailure(errorLike) ==
    [errorCode |-> IF errorLike.errorCode # "" THEN errorLike.errorCode ELSE "CONTACT_OFFICER",
     message |-> IF errorLike.message # "" THEN errorLike.message
                 ELSE "Something went wrong. Please contact support.",
     requestId |-> IF errorLike.requestId # "" THEN errorLike.requestId
                   ELSE makeReferenceCode(ShortestRand, ShortestRand)]

\* apiRequest's catch: if (error?.errorCode) throw error; else handleFailure
caught(error) ==
    IF error.errorCode # "" THEN error
    ELSE handleFailure([errorCode |-> "",
                        message |-> IF error.message # "" THEN error.message ELSE "Unexpected error",
                        requestId |-> ""])

\* the message each handler gives handleFailure with its errorCode
failureMessage(op, err) ==
    CASE err = "UNAUTHORIZED" -> "Please sign in to continue."
      [] err = "VALIDATION" /\ op = "register" -> "Email and password are required."
      [] err = "VALIDATION" -> "Please fill in all transfer fields."
      [] err = "EMAIL_IN_USE" -> "This email is already registered."
      [] err = "INVALID_CREDENTIALS" -> "Incorrect email or password."
      [] err = "ACCOUNT_NOT_FOUND" -> "Source account not found."
      [] err = "INSUFFICIENT_FUNDS" -> "Insufficient funds for this transfer."
      [] err = "TRANSFER_NOT_FOUND" -> "Transfer could not be located."
      [] err = "OTP_EXPIRED" -> "The one-time passcode has expired."
      [] err = "OTP_LOCKED" -> "Too many attempts. Please contact your officer."
      [] err = "OTP_INVALID" -> "Invalid passcode. Please try again."
      [] err = "OTP_REQUIRED" -> "Please verify the passcode before confirming."

\* What a call leaves behind for its caller: the result, or the errorCode of
\* the failure the handler passed to handleFailure and the object thrown
Reply(op, caller, tid, arg, err, out) ==
    [op |-> op, caller |-> caller, tid |-> tid, arg |-> arg, err |-> err, out |-> out,
     thrown |-> IF err = "" THEN <<>>
                ELSE <<caught(handleFailure([errorCode |-> err,
                                             message |-> failureMessage(op, err),
                                             requestId |-> ""]))>>]

-----------------------------------------------------------------------------
(* The state after the module is loaded *)

SeedUsers == <<[id |-> "user-1", email |-> "demo@bank.test", password |-> "password123"]>>

SeedAccounts ==
    <<[id |-> "acct-1", userId |-> "user-1", balance |-> SeedBalance1],
      [id |-> "acct-2", userId |-> "user-1", balance |-> SeedBalance2]>>

SeedTransactions ==
    <<[id |-> "tx-1", accountId |-> "acct-1", amount |-> -875, createdAt |-> 0 - 1000 * 60 * 60 * 4],
      [id |-> "tx-2", accountId |-> "acct-1", amount |-> 180000, createdAt |-> 0 - 1000 * 60 * 60 * 26],
      [id |-> "tx-3", accountId |-> "acct-2", amount |-> -20000, createdAt |-> 0 - 1000 * 60 * 60 * 30]>>

Init ==
    /\ users = SeedUsers
    /\ tokens = <<>>
    /\ accounts = SeedAccounts
    /\ transactions = SeedTransactions
    /\ transfers = <<>>
    /\ now = 0
    /\ resp = Reply("load", "", "", "", "", "")
    /\ verifiedOnce = {}
    /\ wrongTotal = <<>>
    /\ inflight = <<>>
    /\ InitUi

-----------------------------------------------------------------------------
(* requireAuth *)

\* (mutant: only the token issued last is honoured)
requireAuthLatestOnly(authToken) ==
    IF authToken \in DOMAIN tokens /\ authToken = makeId("token", Cardinality(DOMAIN tokens))
    THEN tokens[authToken] ELSE NoUser

\* mockState.tokens.get(authToken), then users.find: the user id, or NoUser
requireAuth(authToken) ==
    LET userId == IF authToken \in DOMAIN tokens THEN tokens[authToken] ELSE NoUser
    IN  IF userId = NoUser THEN NoUser
        ELSE IF Find(users, LAMBDA u : u.id = userId) = 0 THEN NoUser
        ELSE userId

-----------------------------------------------------------------------------
(* mockAuth *)

\* (mutant: register without its search for the email)
registerErrorNoSearch(email, password) ==
    IF email = "" \/ password = "" THEN "VALIDATION" ELSE ""

\* !email || !password; mockState.users.find((u) => u.email === email)
registerError(email, password) ==
    IF email = "" \/ password = "" THEN "VALIDATION"
    ELSE IF Find(users, LAMBDA u : u.email = email) # 0 THEN "EMAIL_IN_USE"
    ELSE ""

register(email, password) ==
    LET err == registerError(email, password)
        newUser == [id |-> makeId("user", Len(users) + 1), email |-> email, password |-> password]
        newAcct == [id |-> makeId("acct", Len(accounts) + 1), userId |-> newUser.id, balance |-> 0]
        token == makeId("token", Cardinality(DOMAIN tokens) + 1)
    IN  IF err # ""
        THEN /\ resp' = Reply("register", NoUser, "", <<email, password>>, err, "")
             /\ UNCHANGED <<users, tokens, accounts>>
        ELSE /\ Cardinality(DOMAIN tokens) < MaxTokens
             /\ users' = Append(users, newUser)
             /\ accounts' = Append(accounts, newAcct)
             /\ tokens' = tokens @@ (token :> newUser.id)
             /\ resp' = Reply("register", newUser.id, "", <<email, password>>, "", token)

Register(email, password) ==
    /\ register(email, password)
    /\ UNCHANGED <<transactions, transfers, now, verifiedOnce, wrongTotal, inflight, ui>>

\* (mutant: a login that compares the email alone)
credentialsMatchEmailOnly(u, email, password) == u.email = email

\* (u) => u.email === email && u.password === password
credentialsMatch(u, email, password) == u.email = email /\ u.password = password

login(email, password) ==
    LET i == Find(users, LAMBDA u : credentialsMatch(u, email, password))
        token == makeId("token", Cardinality(DOMAIN tokens) + 1)
    IN  IF i = 0
        THEN /\ resp' = Reply("login", NoUser, "", <<email, password>>, "INVALID_CREDENTIALS", "")
             /\ UNCHANGED tokens
        ELSE /\ Cardinality(DOMAIN tokens) < MaxTokens
             /\ tokens' = tokens @@ (token :> users[i].id)
             /\ resp' = Reply("login", users[i].id, "", <<email, password>>, "", token)

Login(email, password) ==
    /\ login(email, password)
    /\ UNCHANGED <<users, accounts, transactions, transfers, now, verifiedOnce, wrongTotal, inflight, ui>>

me(authToken) ==
    LET user == requireAuth(authToken)
    IN  resp' = IF user = NoUser
                THEN Reply("me", NoUser, "", "", "UNAUTHORIZED", "")
                ELSE Reply("me", user, "", "", "", user)

Me(authToken) ==
    /\ me(authToken)
    /\ UNCHANGED <<users, tokens, accounts, transactions, transfers, now, verifiedOnce, wrongTotal, inflight, ui>>

-----------------------------------------------------------------------------
(* Ledger queries *)

mockAccounts(authToken) ==
    LET user == requireAuth(authToken)
    IN  resp' = IF user = NoUser
                THEN Reply("accounts", NoUser, "", "", "UNAUTHORIZED", <<>>)
                ELSE Reply("accounts", user, "", "", "",
                           Filter(accounts, LAMBDA acct : acct.userId = user))

Accounts(authToken) ==
    /\ mockAccounts(authToken)
    /\ UNCHANGED <<users, tokens, accounts, transactions, transfers, now, verifiedOnce, wrongTotal, inflight, ui>>

\* tx => (accountId ? tx.accountId === accountId : allowedAccountIds.includes(tx.accountId))
txVisible(tx, accountId, allowedAccountIds) ==
    IF accountId # "" THEN tx.accountId = accountId ELSE tx.accountId \in allowedAccountIds

\* the listing itself: filter, then sort (filter returns a copy)
listTransactions(user, accountId) ==
    LET own == Filter(accounts, LAMBDA acct : acct.userId = user)
        allowedAccountIds == {own[i].id : i \in 1..Len(own)}
    IN  SortDesc(Filter(transactions, LAMBDA tx : txVisible(tx, accountId, allowedAccountIds)))

mockTransactions(authToken, accountId) ==
    LET user == requireAuth(authToken)
    IN  resp' = IF user = NoUser
                THEN Reply("transactions", NoUser, "", accountId, "UNAUTHORIZED", <<>>)
                ELSE Reply("transactions", user, "", accountId, "",
                           listTransactions(user, accountId))

Transactions(authToken, accountId) ==
    /\ mockTransactions(authToken, accountId)
    /\ UNCHANGED <<users, tokens, accounts, transactions, transfers, now, verifiedOnce, wrongTotal, inflight, ui>>

-----------------------------------------------------------------------------
(* mockTransfer *)

\* (mutant: initiate without its funds check)
initiateOverdrawsNoCheck(amount, balance) == FALSE

\* initiate: Number(amount) > fromAccount.balance
initiateOverdraws(amount, balance) == amount > balance

\* the transfer record initiate stores
pending(transferId, user, fromAccountId, toAccountId, amount) ==
    [id |-> transferId, userId |-> user, fromAccountId |-> fromAccountId,
     toAccountId |-> toAccountId, amount |-> amount, status |-> "PENDING_OTP", otp |-> <<>>]

\* (mutant: an amount check that also refuses amounts below zero)
amountMissingOrNegative(amount) == amount <= 0

\* initiate: !amount, true of a number only when it is 0
amountMissing(amount) == amount = 0

initiateError(user, fromAccountId, toAccountId, amount) ==
    IF user = NoUser THEN "UNAUTHORIZED"
    ELSE IF fromAccountId = "" \/ toAccountId = "" \/ amountMissing(amount) THEN "VALIDATION"
    ELSE LET i == Find(accounts, LAMBDA acct : acct.id = fromAccountId /\ acct.userId = user)
         IN  IF i = 0 THEN "ACCOUNT_NOT_FOUND"
             ELSE IF initiateOverdraws(amount, accounts[i].balance) THEN "INSUFFICIENT_FUNDS"
             ELSE ""

initiate(authToken, fromAccountId, toAccountId, amount) ==
    LET user == requireAuth(authToken)
        err == initiateError(user, fromAccountId, toAccountId, amount)
        transferId == makeId("transfer", Cardinality(DOMAIN transfers) + 1)
    IN  IF err # ""
        THEN /\ resp' = Reply("initiate", user, "", <<fromAccountId, toAccountId, amount>>, err, "")
             /\ UNCHANGED <<transfers, wrongTotal>>
        ELSE /\ Cardinality(DOMAIN transfers) < MaxTransfers
             /\ transfers' = transfers @@
                    (transferId :> pending(transferId, user, fromAccountId, toAccountId, amount))
             /\ wrongTotal' = wrongTotal @@ (transferId :> 0)
             /\ resp' = Reply("initiate", user, transferId, <<fromAccountId, toAccountId, amount>>, "", "PENDING_OTP")

Initiate(authToken, fromAccountId, toAccountId, amount) ==
    /\ initiate(authToken, fromAccountId, toAccountId, amount)
    /\ UNCHANGED <<users, tokens, accounts, transactions, now, verifiedOnce, inflight, ui>>

\* the challenge sendOtp stores: { code, attempts: 0, expiresAt: Date.now() + 5 * 60 * 1000 }
\* (mutant: a challenge that expires at the moment it is sent)
newOtpNoTtl(code, t) == [code |-> code, attempts |-> 0, expiresAt |-> t]

newOtp(code, t) == [code |-> code, attempts |-> 0, expiresAt |-> t + OTP_TTL]

sendOtpError(authToken, transferId) ==
    IF requireAuth(authToken) = NoUser THEN "UNAUTHORIZED"
    ELSE IF transferId \notin DOMAIN transfers THEN "TRANSFER_NOT_FOUND"
    ELSE ""

\* code: what Math.floor(100000 + Math.random() * 900000).toString() drew
sendOtp(authToken, transferId, code) ==
    LET err == sendOtpError(authToken, transferId)
    IN  IF err # ""
        THEN /\ resp' = Reply("sendOtp", requireAuth(authToken), transferId, "", err, "")
             /\ UNCHANGED transfers
        ELSE /\ transfers' = [transfers EXCEPT ![transferId].otp = <<newOtp(code, now)>>]
             /\ resp' = Reply("sendOtp", requireAuth(authToken), transferId, "", "", code)

SendOtp(authToken, transferId, code) ==
    /\ sendOtp(authToken, transferId, code)
    /\ UNCHANGED <<users, tokens, accounts, transactions, now, verifiedOnce, wrongTotal, inflight, ui>>

\* transfer.otp.expiresAt < now
otpExpired(otp, t) == otp.expiresAt < t

\* (mutant: the lock one attempt late)
otpLockedLate(otp) == otp.attempts > OTP_MAX_ATTEMPTS

\* transfer.otp.attempts >= 5
otpLocked(otp) == otp.attempts >= OTP_MAX_ATTEMPTS

\* (mutant: a failed attempt counted twice)
countAttemptTwice(otp) == [otp EXCEPT !.attempts = @ + 2]

\* transfer.otp.attempts += 1
countAttempt(otp) == [otp EXCEPT !.attempts = @ + 1]

\* (mutant: a wrong code also takes the transfer back to PENDING_OTP)
failedAttemptResetsStatus(transfer) ==
    [transfer EXCEPT !.otp = <<countAttempt(@[1])>>, !.status = "PENDING_OTP"]

\* what a wrong code writes before handleFailure throws: the counter, nothing else
failedAttempt(transfer) == [transfer EXCEPT !.otp = <<countAttempt(@[1])>>]

verifyOtpError(authToken, transferId, code) ==
    IF requireAuth(authToken) = NoUser THEN "UNAUTHORIZED"
    ELSE IF transferId \notin DOMAIN transfers THEN "TRANSFER_NOT_FOUND"
    ELSE IF transfers[transferId].otp = <<>> THEN "TRANSFER_NOT_FOUND"
    ELSE LET otp == transfers[transferId].otp[1]
         IN  IF otpExpired(otp, now) THEN "OTP_EXPIRED"
             ELSE IF otpLocked(otp) THEN "OTP_LOCKED"
             ELSE IF otp.code # code THEN "OTP_INVALID"
             ELSE ""

\* the status verifyOtp writes once every check has passed
verifiedStatus(transfer) == "VERIFIED"

verifyOtp(authToken, transferId, code) ==
    LET err == verifyOtpError(authToken, transferId, code)
    IN  /\ resp' = Reply("verifyOtp", requireAuth(authToken), transferId, code, err, IF err = "" THEN "VERIFIED" ELSE "")
        /\ IF err = "OTP_INVALID"
           THEN /\ transfers' = [transfers EXCEPT ![transferId] = failedAttempt(@)]
                /\ wrongTotal' = [wrongTotal EXCEPT ![transferId] =
                                     IF @ < OTP_MAX_ATTEMPTS THEN @ + 1 ELSE @]
                /\ UNCHANGED verifiedOnce
           ELSE IF err = ""
           THEN /\ transfers' = [transfers EXCEPT ![transferId].status = verifiedStatus(transfers[transferId])]
                /\ verifiedOnce' = verifiedOnce \cup {transferId}
                /\ UNCHANGED wrongTotal
           ELSE UNCHANGED <<transfers, verifiedOnce, wrongTotal>>

VerifyOtp(authToken, transferId, code) ==
    /\ verifyOtp(authToken, transferId, code)
    /\ UNCHANGED <<users, tokens, accounts, transactions, now, inflight, ui>>

\* (mutant: confirm without its status check)
otpRequiredNoCheck(transfer) == FALSE

otpRequiredWhilePending(transfer) == transfer.status = "PENDING_OTP"

\* transfer.status !== "VERIFIED"
otpRequired(transfer) == transfer.status # "VERIFIED"

\* (mutants: confirm without its funds check; confirm refusing the whole balance)
confirmOverdrawsNoCheck(amount, balance) == FALSE

confirmOverdrawsAtBalance(amount, balance) == amount >= balance

\* confirm: transfer.amount > fromAccount.balance
confirmOverdraws(amount, balance) == amount > balance

confirmError(authToken, transferId) ==
    LET user == requireAuth(authToken)
    IN  IF user = NoUser THEN "UNAUTHORIZED"
        ELSE IF transferId \notin DOMAIN transfers THEN "TRANSFER_NOT_FOUND"
        ELSE LET transfer == transfers[transferId]
                 i == Find(accounts, LAMBDA acct : acct.id = transfer.fromAccountId /\ acct.userId = user)
             IN  IF otpRequired(transfer) THEN "OTP_REQUIRED"
                 ELSE IF i = 0 THEN "ACCOUNT_NOT_FOUND"
                 ELSE IF confirmOverdraws(transfer.amount, accounts[i].balance) THEN "INSUFFICIENT_FUNDS"
                 ELSE ""

\* (mutants: the debit without the credit; a cent taken from every other
\* account; the credit without the debit)
moveFundsDebitOnly(accts, fromIdx, toAccountId, amount) ==
    [accts EXCEPT ![fromIdx].balance = @ - amount]

moveFundsSweep(accts, fromIdx, toAccountId, amount) ==
    [i \in 1..Len(accts) |->
        [accts[i] EXCEPT !.balance =
            IF i = fromIdx /\ accts[i].id = toAccountId THEN @
            ELSE IF i = fromIdx THEN @ - amount
            ELSE IF accts[i].id = toAccountId THEN @ + amount
            ELSE @ - 1]]

moveFundsCreditOnly(accts, fromIdx, toAccountId, amount) ==
    LET toIdx == Find(accts, LAMBDA acct : acct.id = toAccountId)
    IN  IF toIdx # 0 THEN [accts EXCEPT ![toIdx].balance = @ + amount] ELSE accts

\* fromAccount.balance -= amount; toAccount = accounts.find(...); if (toAccount) toAccount.balance += amount
moveFunds(accts, fromIdx, toAccountId, amount) ==
    LET debited == [accts EXCEPT ![fromIdx].balance = @ - amount]
        toIdx == Find(debited, LAMBDA acct : acct.id = toAccountId)
    IN  IF toIdx # 0 THEN [debited EXCEPT ![toIdx].balance = @ + amount] ELSE debited

\* (mutant: a record of the amount with its sign kept)
receiptUnsigned(transfer, fromAccount, t) ==
    [id |-> makeId("tx", Len(transactions) + 1), accountId |-> fromAccount.id,
     amount |-> transfer.amount, createdAt |-> t]

\* the record confirm pushes onto mockState.transactions
receipt(transfer, fromAccount, t) ==
    [id |-> makeId("tx", Len(transactions) + 1), accountId |-> fromAccount.id,
     amount |-> -transfer.amount, createdAt |-> t]

confirm(authToken, transferId) ==
    LET err == confirmError(authToken, transferId)
    IN  IF err # ""
        THEN /\ resp' = Reply("confirm", requireAuth(authToken), transferId, "", err, "")
             /\ UNCHANGED <<accounts, transactions, transfers>>
        ELSE LET transfer == transfers[transferId]
                 user == requireAuth(authToken)
                 i == Find(accounts, LAMBDA acct : acct.id = transfer.fromAccountId /\ acct.userId = user)
             IN  /\ Len(transactions) < Len(SeedTransactions) + MaxConfirms
                 /\ accounts' = moveFunds(accounts, i, transfer.toAccountId, transfer.amount)
                 /\ transactions' = Append(transactions, receipt(transfer, accounts[i], now))
                 /\ transfers' = [transfers EXCEPT ![transferId].status = "COMPLETED"]
                 /\ resp' = Reply("confirm", user, transferId, "", "", "COMPLETED")

Confirm(authToken, transferId) ==
    /\ confirm(authToken, transferId)
    /\ UNCHANGED <<users, tokens, now, verifiedOnce, wrongTotal, inflight, ui>>

-----------------------------------------------------------------------------
(* The clock *)

\* Time passes between calls, one OTP lifetime at a step: a call comes at the
\* instant a challenge was sent, exactly at its expiresAt, or after it.
TickMs == OTP_TTL

Tick ==
    /\ now < MaxTicks * TickMs
    /\ now' = now + TickMs
    /\ UNCHANGED <<users, tokens, accounts, transactions, transfers, resp, verifiedOnce, wrongTotal, inflight, ui>>

-----------------------------------------------------------------------------
(* What callers send *)

\* Addresses that pass the login form's isValidEmail, /^[^\s@]+@[^\s@]+\.[^\s@]+$/
Emails == {"demo@bank.test", "new@bank.test"}

\* What initLogin lets through to POST /auth/login: both fields present, a
\* well-formed address, a password of the minimum length
loginFormAccepts(email, password) ==
    /\ email # "" /\ password # ""
    /\ email \in Emails
    /\ Len(password) >= MinPasswordLength

Tokens == DOMAIN tokens \cup {"token-0"}
AccountIds == {accounts[i].id : i \in 1..Len(accounts)}
TransferIds == DOMAIN transfers \cup {"transfer-0"}
Codes == {"111111", "222222"}

\* Request bodies of POST /transfer/initiate: any source, destination and sign of
\* the amount, and each required field missing in turn
Transfers ==
    {<<from, to, amount>> : from \in {"acct-1", "acct-3"},
                            to \in {"acct-1", "acct-2", "acct-3", Ext},
                            amount \in {-1, SeedBalance1}}
    \cup {<<"", "acct-2", 1>>, <<"acct-1", "", 1>>, <<"acct-1", "acct-2", 0>>, <<"acct-3", "acct-1", 0>>}


-----------------------------------------------------------------------------
(* apiRequest *)

\* a runtime exception as thrown: an Error has a message, no errorCode, no requestId
TypeError == [errorCode |-> "", message |-> "Cannot read properties of undefined", requestId |-> ""]

\* a body with no field set, `{}`
EmptyBody ==
    [kind |-> "object", email |-> "", password |-> "", fromAccountId |-> "", toAccountId |-> "",
     amount |-> 0, transferId |-> "", code |-> ""]

\* a path left out of the call
NoPath == [kind |-> "undefined", slashes |-> 0, route |-> "", accountId |-> ""]

\* String.prototype.toUpperCase on the methods callers send
toUpperCase(method) ==
    CASE method = "get" -> "GET" [] method = "post" -> "POST" [] OTHER -> method

\* the call ends by throwing error, the store untouched
Throws(options, error) ==
    /\ resp' = [op |-> "apiRequest", caller |-> NoUser, tid |-> "", arg |-> options,
                err |-> error.errorCode, out |-> "", thrown |-> <<error>>]
    /\ UNCHANGED <<users, tokens, accounts, transactions, transfers, now, verifiedOnce, wrongTotal, inflight, ui>>

\* path.replace(/^\/+/, ""): a path is its leading slashes, the route after
\* them and the accountId of its query; the replace drops the slashes
stripLeadingSlashes(path) == [path EXCEPT !.slashes = 0]

\* `${path}` as the default branch prints it
pathText(path) ==
    (CASE path.slashes = 0 -> "" [] path.slashes = 1 -> "/" [] OTHER -> "//") \o path.route

\* routeMockRequest({ path, method, body = {}, authToken }): the switch on the
\* normalized path and the method; a path that is not a string has no replace,
\* and a handler that takes its fields out of a null body throws a TypeError
routeMockRequest(request, options) ==
    IF request.path.kind = "undefined" THEN Throws(options, caught(TypeError))
    ELSE LET normalizedPath == pathText(stripLeadingSlashes(request.path))
             body == request.body
             authToken == request.authToken
             post == request.method = "POST"
             get == request.method = "GET"
         IN  CASE normalizedPath = "auth/register" /\ post ->
                      IF body.kind = "null" THEN Throws(options, caught(TypeError))
                      ELSE Register(body.email, body.password)
               [] normalizedPath = "auth/login" /\ post ->
                      IF body.kind = "null" THEN Throws(options, caught(TypeError))
                      ELSE Login(body.email, body.password)
               [] normalizedPath = "auth/me" /\ get -> Me(authToken)
               [] normalizedPath = "accounts" /\ get -> Accounts(authToken)
               [] normalizedPath = "transactions" /\ get -> Transactions(authToken, request.path.accountId)
               [] normalizedPath = "transfer/initiate" /\ post ->
                      IF body.kind = "null" THEN Throws(options, caught(TypeError))
                      ELSE Initiate(authToken, body.fromAccountId, body.toAccountId, body.amount)
               [] normalizedPath = "transfer/send-otp" /\ post ->
                      IF body.kind = "null" THEN Throws(options, caught(TypeError))
                      ELSE \E code \in Codes : SendOtp(authToken, body.transferId, code)
               [] normalizedPath = "transfer/verify-otp" /\ post ->
                      IF body.kind = "null" THEN Throws(options, caught(TypeError))
                      ELSE VerifyOtp(authToken, body.transferId, body.code)
               [] normalizedPath = "transfer/confirm" /\ post ->
                      IF body.kind = "null" THEN Throws(options, caught(TypeError))
                      ELSE Confirm(authToken, body.transferId)
               [] OTHER ->
                      Throws(options, caught(handleFailure([errorCode |-> "",
                                                            message |-> "Unknown endpoint: " \o pathText(request.path),
                                                            requestId |-> ""])))

\* apiRequest({ path, method = "GET", body, authToken } = {}): the parameter is
\* taken apart before the try block is entered, so a null argument throws
\* outside it; inside, method.toUpperCase() and routeMockRequest run under the
\* catch
apiRequest(options) ==
    IF options.kind = "null" THEN Throws(options, TypeError)
    ELSE LET method == IF options.kind = "undefined" \/ options.method = "undefined"
                       THEN "GET" ELSE options.method
             path == IF options.kind = "undefined"
                     THEN NoPath ELSE options.path
             body == IF options.kind = "undefined" \/ options.body.kind = "undefined"
                     THEN EmptyBody ELSE options.body
         IN  IF method = "null" THEN Throws(options, caught(TypeError))
             ELSE routeMockRequest([path |-> path, method |-> toUpperCase(method), body |-> body,
                                    authToken |-> options.authToken], options)

\* The calls made of apiRequest: no argument, null, or an options object whose
\* path, method and body are each given, left out or null
Routes ==
    {"auth/register", "auth/login", "auth/me", "accounts", "transactions", "transfer/initiate",
     "transfer/send-otp", "transfer/verify-otp", "transfer/confirm", "transfers", "profile",
     "notifications", "notifications/mark-read", "notifications/mark-all-read"}

Paths ==
    {[kind |-> "string", slashes |-> 1, route |-> r, accountId |-> ""] : r \in Routes}
    \cup {[kind |-> "string", slashes |-> 1, route |-> "transactions", accountId |-> "acct-1"]}

Bodies ==
    {[kind |-> "object", email |-> "demo@bank.test", password |-> "password123",
      fromAccountId |-> "acct-1", toAccountId |-> "acct-2", amount |-> 1,
      transferId |-> "transfer-1", code |-> "111111"]}

\* apiRequest() and apiRequest(null)
BareRequests ==
    {[kind |-> k, path |-> NoPath, method |-> "undefined", body |-> EmptyBody, authToken |-> "token-0"] :
         k \in {"undefined", "null"}}

\* calls as the pages make them: method left out or in lower case, a body of
\* all the fields the routes read
RoutedRequests ==
    {[kind |-> "object", path |-> p, method |-> m, body |-> b, authToken |-> t] :
         p \in Paths, m \in {"undefined", "post"}, b \in Bodies, t \in Tokens}

\* calls with a piece missing or null: no path, a path without or with two
\* leading slashes, a null method, a body left out, null or empty
OddRequests ==
    {[kind |-> "object", path |-> p, method |-> "GET", body |-> EmptyBody, authToken |-> "token-1"] :
         p \in {NoPath,
                [kind |-> "string", slashes |-> 0, route |-> "auth/me", accountId |-> ""],
                [kind |-> "string", slashes |-> 2, route |-> "accounts", accountId |-> ""]}}
    \cup {[kind |-> "object", path |-> p, method |-> "null", body |-> EmptyBody, authToken |-> "token-1"] :
              p \in {[kind |-> "string", slashes |-> 1, route |-> "accounts", accountId |-> ""]}}
    \cup {[kind |-> "object", path |-> p, method |-> "POST", body |-> [EmptyBody EXCEPT !.kind = k],
           authToken |-> "token-1"] :
              p \in Paths, k \in {"undefined", "null", "object"}}

Requests == BareRequests \cup RoutedRequests \cup OddRequests

(* Every call through apiRequest, from the page load.                        *)
NextApi == \E options \in Requests : apiRequest(options)

SpecApi == Init /\ [][NextApi]_vars

-----------------------------------------------------------------------------
(* The ledger, from the page load: two users, one transfer.  The passcode   *)
(* typed is the one sent and the clock stands still.                         *)
Next ==
    \/ \E email \in {"", "demo@bank.test", "new@bank.test"}, password \in {"", "hunter2"} :
           Register(email, password)
    \/ \E email \in Emails, password \in {"password123", "hunter2"} :
           Login(email, password)
    \/ \E tok \in Tokens : Me(tok)
    \/ \E tok \in Tokens : Accounts(tok)
    \/ \E tok \in Tokens, accountId \in AccountIds \cup {""} : Transactions(tok, accountId)
    \/ \E tok \in Tokens, body \in Transfers : Initiate(tok, body[1], body[2], body[3])
    \/ \E tok \in Tokens, tid \in TransferIds : SendOtp(tok, tid, "111111")
    \/ \E tok \in Tokens, tid \in TransferIds : VerifyOtp(tok, tid, "111111")
    \/ \E tok \in Tokens, tid \in TransferIds : Confirm(tok, tid)

Spec == Init /\ [][Next]_vars

(* The passcode challenge of one transfer: user-1 has logged in and has      *)
(* initiated a transfer; from there any passcode is typed and the clock      *)
(* runs.                                                                     *)
InitOtp ==
    /\ users = SeedUsers
    /\ tokens = ("token-1" :> "user-1")
    /\ accounts = SeedAccounts
    /\ transactions = SeedTransactions
    /\ transfers = ("transfer-1" :> pending("transfer-1", "user-1", "acct-1", "acct-2", 1))
    /\ now = 0
    /\ resp = Reply("initiate", "user-1", "transfer-1", <<"acct-1", "acct-2", 1>>, "", "PENDING_OTP")
    /\ verifiedOnce = {}
    /\ wrongTotal = ("transfer-1" :> 0)
    /\ inflight = <<>>
    /\ InitUi

NextOtp ==
    \/ \E tok \in Tokens, tid \in TransferIds, code \in Codes : SendOtp(tok, tid, code)
    \/ \E tok \in Tokens, tid \in TransferIds, code \in Codes : VerifyOtp(tok, tid, code)
    \/ \E tok \in Tokens, tid \in TransferIds : Confirm(tok, tid)
    \/ Tick

SpecOtp == InitOtp /\ [][NextOtp]_vars

(* Two transfers that draw on one account: user-1 has logged in and has      *)
(* initiated two transfers from acct-1, each of 1 cent or of the whole       *)
(* balance, to acct-2 or to an external account.                             *)
InitFunds ==
    /\ users = SeedUsers
    /\ tokens = ("token-1" :> "user-1")
    /\ accounts = SeedAccounts
    /\ transactions = SeedTransactions
    /\ \E to1 \in {"acct-2", Ext}, to2 \in {"acct-2", Ext}, amount1 \in {1, SeedBalance1}, amount2 \in {1, SeedBalance1} :
           /\ transfers = ("transfer-1" :> pending("transfer-1", "user-1", "acct-1", to1, amount1))
                          @@ ("transfer-2" :> pending("transfer-2", "user-1", "acct-1", to2, amount2))
           /\ resp = Reply("initiate", "user-1", "transfer-2", <<"acct-1", to2, amount2>>, "", "PENDING_OTP")
    /\ now = 0
    /\ verifiedOnce = {}
    /\ wrongTotal = ("transfer-1" :> 0) @@ ("transfer-2" :> 0)
    /\ inflight = <<>>
    /\ InitUi

NextFunds ==
    \/ \E tok \in Tokens : Accounts(tok)
    \/ \E tok \in Tokens, tid \in TransferIds : SendOtp(tok, tid, "111111")
    \/ \E tok \in Tokens, tid \in TransferIds : VerifyOtp(tok, tid, "111111")
    \/ \E tok \in Tokens, tid \in TransferIds : Confirm(tok, tid)

SpecFunds == InitFunds /\ [][NextFunds]_vars

(* Every way the passcode steps can fail: user-1 and a second, registered    *)
(* user have signed in, and user-1 has initiated a transfer of the whole     *)
(* balance of acct-1 to an external account; any passcode is typed and the   *)
(* clock runs.                                                               *)
InitFail ==
    /\ users = Append(SeedUsers, [id |-> "user-2", email |-> "new@bank.test", password |-> "hunter2"])
    /\ tokens = ("token-1" :> "user-1") @@ ("token-2" :> "user-2")
    /\ accounts = Append(SeedAccounts, [id |-> "acct-3", userId |-> "user-2", balance |-> 0])
    /\ transactions = SeedTransactions
    /\ transfers = ("transfer-1" :> pending("transfer-1", "user-1", "acct-1", Ext, SeedBalance1))
    /\ now = 0
    /\ resp = Reply("initiate", "user-1", "transfer-1", <<"acct-1", Ext, SeedBalance1>>, "", "PENDING_OTP")
    /\ verifiedOnce = {}
    /\ wrongTotal = ("transfer-1" :> 0)
    /\ inflight = <<>>
    /\ InitUi

NextFail ==
    \/ \E tok \in Tokens, tid \in TransferIds, code \in Codes : SendOtp(tok, tid, code)
    \/ \E tok \in Tokens, tid \in TransferIds, code \in Codes : VerifyOtp(tok, tid, code)
    \/ \E tok \in Tokens, tid \in TransferIds : Confirm(tok, tid)
    \/ Tick

SpecFail == InitFail /\ [][NextFail]_vars

-----------------------------------------------------------------------------
(* Calls in flight together *)

\* What a handler does once `await requireAuth(authToken)` has returned: it runs
\* to its return, or to the handleFailure it awaits and that throws, without
\* yielding in between.  No token is ever remapped, so the user requireAuth
\* found before the await is the one the token maps to when the call resumes.
Continue(call) ==
    CASE call.op = "accounts" ->
             /\ mockAccounts(call.tok)
             /\ UNCHANGED <<users, tokens, accounts, transactions, transfers, now, verifiedOnce, wrongTotal, ui>>
      [] call.op = "initiate" ->
             /\ initiate(call.tok, call.arg[1], call.arg[2], call.arg[3])
             /\ UNCHANGED <<users, tokens, accounts, transactions, now, verifiedOnce, ui>>
      [] call.op = "confirm" ->
             /\ confirm(call.tok, call.arg[1])
             /\ UNCHANGED <<users, tokens, now, verifiedOnce, wrongTotal, ui>>

\* The synchronous start of a call: requireAuth looks the token up at once; an
\* unknown token ends the call with UNAUTHORIZED, a known one leaves the call
\* suspended at the await.
Begin(call) ==
    IF requireAuth(call.tok) = NoUser
    THEN Continue(call) /\ UNCHANGED inflight
    ELSE /\ Len(inflight) < MaxInFlight
         /\ inflight' = Append(inflight, call)
         /\ UNCHANGED <<users, tokens, accounts, transactions, transfers, now, resp, verifiedOnce, wrongTotal, ui>>

\* A suspended call resumes; the event loop may take them in any order.
Resume(i) ==
    /\ Continue(inflight[i])
    /\ inflight' = SubSeq(inflight, 1, i - 1) \o SubSeq(inflight, i + 1, Len(inflight))

(* user-1 has signed in and has verified two transfers from acct-1 to        *)
(* acct-2, of 1 cent and of the whole balance; listings, initiate calls and  *)
(* confirm calls are then started before earlier ones have resumed.  (The   *)
(* store is full at MaxTransfers, so the initiate calls that resume are the  *)
(* ones their funds check refuses.)                                          *)
verified(transfer) == [transfer EXCEPT !.status = "VERIFIED", !.otp = <<newOtp("111111", 0)>>]

\* const transfer = mockState.transfers.get(transferId), before the await:
\* the status the record had when the call read it (history)
statusRead(transferId) ==
    IF transferId \in DOMAIN transfers THEN transfers[transferId].status ELSE ""

InitAsync ==
    /\ users = SeedUsers
    /\ tokens = ("token-1" :> "user-1")
    /\ accounts = SeedAccounts
    /\ transactions = SeedTransactions
    /\ transfers = ("transfer-1" :> verified(pending("transfer-1", "user-1", "acct-1", "acct-2", 1)))
                   @@ ("transfer-2" :> verified(pending("transfer-2", "user-1", "acct-1", "acct-2", SeedBalance1)))
    /\ now = 0
    /\ resp = Reply("verifyOtp", "user-1", "transfer-2", "111111", "", "VERIFIED")
    /\ verifiedOnce = {"transfer-1", "transfer-2"}
    /\ wrongTotal = ("transfer-1" :> 0) @@ ("transfer-2" :> 0)
    /\ inflight = <<>>
    /\ InitUi

NextAsync ==
    \/ \E tok \in Tokens : Begin([op |-> "accounts", tok |-> tok, arg |-> <<>>])
    \/ \E tok \in Tokens, amount \in {1, SeedBalance1} :
           Begin([op |-> "initiate", tok |-> tok, arg |-> <<"acct-1", "acct-2", amount>>])
    \/ \E tok \in Tokens, tid \in TransferIds :
           Begin([op |-> "confirm", tok |-> tok, arg |-> <<tid, statusRead(tid)>>])
    \/ \E i \in 1..Len(inflight) : Resume(i)

SpecAsync == InitAsync /\ [][NextAsync]_vars

-----------------------------------------------------------------------------
(* The officer lookup of handleFailure *)

fallbackOfficer ==
    [name |-> "Casey Taylor", phone |-> "+1 (555) 010-8899", email |-> "support@demo-bank.test"]

\* what /shared/officer-contact.json parses to: some officer object
fetchedOfficer == [name |-> "officer", phone |-> "phone", email |-> "officer@bank.test"]

\* what handleFailure is called with: a classified failure, an unclassified one
ErrorLikes ==
    {[errorCode |-> "UNAUTHORIZED", message |-> "Please sign in to continue.", requestId |-> ""],
     [errorCode |-> "", message |-> "Unknown endpoint: /profile", requestId |-> ""]}

storeVars ==
    <<users, tokens, accounts, transactions, transfers, now, verifiedOnce, wrongTotal, inflight,
      localStorage, page, navigating, registered, modalVars>>

\* handleFailure up to its await: the toast, then fetchOfficerContact, which
\* returns the cached value if there is one and issues the request if not;
\* either way the call is suspended
BeginFailure(errorLike) ==
    /\ failures < MaxFailures
    /\ failures' = failures + 1
    /\ IF cachedOfficerContact # <<>>
       THEN /\ lookups' = Append(lookups, [id |-> failures + 1, error |-> errorLike, stage |-> "return",
                                            officer |-> cachedOfficerContact[1], cached |-> TRUE])
            /\ UNCHANGED fetches
       ELSE /\ lookups' = Append(lookups, [id |-> failures + 1, error |-> errorLike, stage |-> "fetch",
                                            officer |-> fallbackOfficer, cached |-> FALSE])
            /\ fetches' = fetches + 1
    /\ UNCHANGED <<cachedOfficerContact, resp, storeVars>>

\* cachedOfficerContact = ...; return cachedOfficerContact
settle(i, officer) ==
    /\ cachedOfficerContact' = <<officer>>
    /\ lookups' = [lookups EXCEPT ![i].stage = "return", ![i].officer = officer]

\* the request comes back: a response that is ok goes on to response.json(),
\* a network error or a response that is not ok goes to the catch
FetchResolves(i, ok) ==
    /\ lookups[i].stage = "fetch"
    /\ IF ok
       THEN /\ lookups' = [lookups EXCEPT ![i].stage = "json"]
            /\ UNCHANGED cachedOfficerContact
       ELSE settle(i, fallbackOfficer)
    /\ UNCHANGED <<fetches, failures, resp, storeVars>>

\* response.json() comes back: parsed, or rejected into the catch
JsonResolves(i, ok) ==
    /\ lookups[i].stage = "json"
    /\ settle(i, IF ok THEN fetchedOfficer ELSE fallbackOfficer)
    /\ UNCHANGED <<fetches, failures, resp, storeVars>>

\* handleFailure after its await: the modal with the officer it was given,
\* then throw normalizedError
EndFailure(i) ==
    /\ lookups[i].stage = "return"
    /\ resp' = [op |-> "handleFailure", caller |-> NoUser, tid |-> "", arg |-> lookups[i],
                err |-> handleFailure(lookups[i].error).errorCode, out |-> lookups[i].officer,
                thrown |-> <<handleFailure(lookups[i].error)>>]
    /\ lookups' = SubSeq(lookups, 1, i - 1) \o SubSeq(lookups, i + 1, Len(lookups))
    /\ UNCHANGED <<cachedOfficerContact, fetches, failures, storeVars>>

(* Failures on one page, begun at any time, also while earlier ones wait     *)
(* for the officer lookup.                                                   *)
NextOfficer ==
    \/ \E errorLike \in ErrorLikes : BeginFailure(errorLike)
    \/ \E i \in 1..Len(lookups), ok \in BOOLEAN : FetchResolves(i, ok)
    \/ \E i \in 1..Len(lookups), ok \in BOOLEAN : JsonResolves(i, ok)
    \/ \E i \in 1..Len(lookups) : EndFailure(i)

SpecOfficer == Init /\ [][NextOfficer]_vars

-----------------------------------------------------------------------------
(* The pages: login.html, register.html, dashboard.html *)

Pages == {"login.html", "register.html", "dashboard.html"}

Passwords == {"password123", "hunter22", "short"}

\* What initRegister lets through to POST /auth/register
registerFormAccepts(email, password) ==
    /\ email # "" /\ password # ""
    /\ email \in Emails
    /\ Len(password) >= MinRegisterPasswordLength

displayVars == <<cachedOfficerContact, fetches, failures, lookups, modalVars>>

\* the submit handler of the login form: the call, then persistAuthToken and
\* redirect("dashboard.html") if it returned
SubmitLogin(email, password) ==
    /\ page = "login.html"
    /\ loginFormAccepts(email, password)
    /\ login(email, password)
    /\ IF resp'.err = ""
       THEN localStorage' = resp'.out /\ navigating' = "dashboard.html"
       ELSE UNCHANGED <<localStorage, navigating>>
    /\ UNCHANGED <<users, accounts, transactions, transfers, now, verifiedOnce, wrongTotal, inflight,
                   displayVars, page, registered>>

\* the submit handler of the register form: the call, then
\* redirect("login.html") if it returned
SubmitRegister(email, password) ==
    /\ page = "register.html"
    /\ registerFormAccepts(email, password)
    /\ register(email, password)
    /\ IF resp'.err = ""
       THEN navigating' = "login.html" /\ registered' = registered \cup {<<email, password>>}
       ELSE UNCHANGED <<navigating, registered>>
    /\ UNCHANGED <<transactions, transfers, now, verifiedOnce, wrongTotal, inflight,
                   displayVars, localStorage, page>>

\* the user follows a link or types an address
Open(target) ==
    /\ navigating' = target
    /\ UNCHANGED <<users, tokens, accounts, transactions, transfers, now, resp, verifiedOnce, wrongTotal,
                   inflight, displayVars, localStorage, page, registered>>

\* The browser loads the page navigated to: the modules are evaluated again,
\* so mockState and cachedOfficerContact start over while localStorage stays;
\* the page's init runs once its module has been imported.
LoadPage ==
    /\ navigating # ""
    /\ page' = navigating
    /\ users' = SeedUsers
    /\ tokens' = <<>>
    /\ accounts' = SeedAccounts
    /\ transactions' = SeedTransactions
    /\ transfers' = <<>>
    /\ verifiedOnce' = {}
    /\ wrongTotal' = <<>>
    /\ inflight' = IF navigating = "dashboard.html"
                   THEN <<[op |-> "initDashboard", tok |-> "", arg |-> <<>>]>>
                   ELSE <<>>
    /\ cachedOfficerContact' = <<>>
    /\ lookups' = <<>>
    /\ navigating' = ""
    /\ resp' = Reply("load", "", "", navigating, "", "")
    /\ modalRoot' = FALSE
    /\ currentOverlay' = 0
    /\ restoreFocusEl' = ""
    /\ document' = FreshDocument
    /\ UNCHANGED <<now, fetches, failures, localStorage, registered, overlays>>

\* initDashboard: a visitor without a stored token is sent to the login page;
\* otherwise GET /accounts with the stored token and, if that returned,
\* GET /transactions
initDashboard ==
    /\ inflight # <<>> /\ inflight[1].op = "initDashboard"
    /\ inflight' = <<>>
    /\ IF localStorage = ""
       THEN navigating' = "login.html" /\ UNCHANGED resp
       ELSE /\ IF requireAuth(localStorage) = NoUser
               THEN mockAccounts(localStorage)
               ELSE mockTransactions(localStorage, "")
            /\ UNCHANGED navigating
    /\ UNCHANGED <<users, tokens, accounts, transactions, transfers, now, verifiedOnce, wrongTotal,
                   displayVars, localStorage, page, registered>>

(* A visitor moving between the login, register and dashboard pages.         *)
NextPages ==
    \/ \E email \in Emails, password \in Passwords : SubmitLogin(email, password)
    \/ \E email \in Emails, password \in Passwords : SubmitRegister(email, password)
    \/ \E target \in Pages : Open(target)
    \/ LoadPage
    \/ initDashboard

SpecPages == Init /\ [][NextPages]_vars

-----------------------------------------------------------------------------
(* The modal helper, js/ui/modal.js *)

\* modal.js's three variables and the document, as one value
modalState ==
    [modalRoot |-> modalRoot, currentOverlay |-> currentOverlay,
     restoreFocusEl |-> restoreFocusEl, document |-> document]

\* the button inside the dialog of overlay k
buttonOf(k) == "button-" \o ToString(k)

\* el.focus(): takes the focus if el is focusable and in the document; the
\* body and a dialog without tabindex are not
focus(doc, el) ==
    IF el = "link" \/ \E i \in 1..Len(doc.children) : el = buttonOf(doc.children[i])
    THEN [doc EXCEPT !.activeElement = el]
    ELSE doc

\* overlay k leaves the document; the focus falls back to the body if it was
\* inside
unmount(doc, k) ==
    [doc EXCEPT !.children = Filter(@, LAMBDA c : c # k),
                !.activeElement = IF @ = buttonOf(k) THEN "body" ELSE @]

\* root.innerHTML = ""
emptyRoot(doc) ==
    [doc EXCEPT !.children = <<>>,
                !.activeElement = IF \E i \in 1..Len(doc.children) : @ = buttonOf(doc.children[i])
                                  THEN "body" ELSE @]

\* document.removeEventListener("keydown", overlay._onKeyDown): the one
\* registration of that function goes
RECURSIVE removeListener(_, _)
removeListener(listeners, k) ==
    IF listeners = <<>> THEN <<>>
    ELSE IF Head(listeners) = k THEN Tail(listeners)
    ELSE <<Head(listeners)>> \o removeListener(Tail(listeners), k)

ensureModalRoot(m) ==
    IF m.modalRoot THEN m
    ELSE [m EXCEPT !.modalRoot = TRUE, !.document.root = TRUE]

\* (mutant: a close that leaves the keydown listener registered)
closeModalKeepsListener(m) ==
    IF m.currentOverlay = 0 THEN m
    ELSE LET k == m.currentOverlay
             removed == IF m.modalRoot /\ \E i \in 1..Len(m.document.children) : m.document.children[i] = k
                        THEN unmount(m.document, k) ELSE m.document
             rooted == ensureModalRoot([m EXCEPT !.document = removed, !.currentOverlay = 0])
             cleared == [emptyRoot(rooted.document) EXCEPT !.overflow = ""]
         IN  [rooted EXCEPT !.document = IF m.restoreFocusEl # "" THEN focus(cleared, m.restoreFocusEl)
                                         ELSE cleared,
                            !.restoreFocusEl = ""]

closeModal(m) ==
    IF m.currentOverlay = 0 THEN m
    ELSE LET k == m.currentOverlay
             unheard == [m.document EXCEPT !.keydown = removeListener(@, k)]
             removed == IF m.modalRoot /\ \E i \in 1..Len(unheard.children) : unheard.children[i] = k
                        THEN unmount(unheard, k) ELSE unheard
             rooted == ensureModalRoot([m EXCEPT !.document = removed, !.currentOverlay = 0])
             cleared == [emptyRoot(rooted.document) EXCEPT !.overflow = ""]
         IN  [rooted EXCEPT !.document = IF m.restoreFocusEl # "" THEN focus(cleared, m.restoreFocusEl)
                                         ELSE cleared,
                            !.restoreFocusEl = ""]

\* openModal(elementOrHtmlString) making overlay k; hasButton: the content
\* holds something focusable, which then takes the focus
openModal(m, k, hasButton) ==
    LET closed == ensureModalRoot(closeModal(m))
        emptied == emptyRoot(closed.document)
        mounted == [emptied EXCEPT !.keydown = Append(@, k),
                                   !.children = Append(@, k),
                                   !.overflow = "hidden",
                                   !.buttons = (@ \ {k}) \cup (IF hasButton THEN {k} ELSE {})]
    IN  [closed EXCEPT !.currentOverlay = k,
                       !.restoreFocusEl = emptied.activeElement,
                       !.document = IF hasButton THEN focus(mounted, buttonOf(k)) ELSE mounted]

\* onKeyDown of overlay k: Escape closes; Tab goes to trapFocus, which keeps
\* the focus on the dialog's button or, finding nothing focusable, lets the
\* browser move it on to the page
onKeyDown(m, k, key) ==
    IF key = "Escape" THEN closeModal(m)
    ELSE IF key = "Tab" /\ k \notin m.document.buttons
         THEN [m EXCEPT !.document.activeElement = "link"]
    ELSE m

\* a keydown event on the document: the listeners registered when it is
\* dispatched run in the order they were added
RECURSIVE dispatchKeyDown(_, _, _)
dispatchKeyDown(m, listeners, key) ==
    IF listeners = <<>> THEN m
    ELSE dispatchKeyDown(onKeyDown(m, Head(listeners), key), Tail(listeners), key)

\* the next values of modal.js's variables and of the document (the steps
\* below leave in resp.out the overlay that was current when they began)
Becomes(m) ==
    /\ modalRoot' = m.modalRoot
    /\ currentOverlay' = m.currentOverlay
    /\ restoreFocusEl' = m.restoreFocusEl
    /\ document' = m.document

otherVars ==
    <<users, tokens, accounts, transactions, transfers, now, verifiedOnce, wrongTotal, inflight,
      cachedOfficerContact, fetches, failures, lookups, localStorage, page, navigating, registered>>

OpenModal(hasButton) ==
    /\ overlays < MaxOverlays
    /\ overlays' = overlays + 1
    /\ Becomes(openModal(modalState, overlays + 1, hasButton))
    /\ resp' = Reply("openModal", "", "", hasButton, "", currentOverlay)
    /\ UNCHANGED otherVars

CloseModal ==
    /\ Becomes(closeModal(modalState))
    /\ resp' = Reply("closeModal", "", "", "", "", currentOverlay)
    /\ UNCHANGED <<overlays, otherVars>>

KeyDown(key) ==
    /\ Becomes(dispatchKeyDown(modalState, document.keydown, key))
    /\ resp' = Reply("keydown", "", "", key, "", currentOverlay)
    /\ UNCHANGED <<overlays, otherVars>>

\* a click on the mounted overlay: on the dimmed area around the dialog
\* (event.target === overlay) or inside the dialog
ClickOverlay(outside) ==
    /\ document.children # <<>>
    /\ Becomes(IF outside THEN closeModal(modalState) ELSE modalState)
    /\ resp' = Reply("click", "", "", outside, "", currentOverlay)
    /\ UNCHANGED <<overlays, otherVars>>

\* the user moves the focus to a link of the page or off it
Focus(el) ==
    /\ Becomes([modalState EXCEPT !.document = IF el = "body" THEN [@ EXCEPT !.activeElement = "body"]
                                                ELSE focus(@, el)])
    /\ resp' = Reply("focus", "", "", el, "", "")
    /\ UNCHANGED <<overlays, otherVars>>

(* Any sequence of modal calls and of the events that close a modal.        *)
NextModal ==
    \/ \E hasButton \in BOOLEAN : OpenModal(hasButton)
    \/ CloseModal
    \/ \E key \in {"Escape", "Tab", "a"} : KeyDown(key)
    \/ \E outside \in BOOLEAN : ClickOverlay(outside)
    \/ \E el \in {"body", "link"} : Focus(el)

SpecModal == Init /\ [][NextModal]_vars

-----------------------------------------------------------------------------
(* Reading the ledger and the last call *)

\* a step that is one API call of the given operation (the clock's steps are not calls)
Step(op) == now' = now /\ resp'.op = op

AcctIdx(accts, accountId) == Find(accts, LAMBDA acct : acct.id = accountId)
Internal(accts, accountId) == AcctIdx(accts, accountId) # 0
Balance(accts, accountId) == accts[AcctIdx(accts, accountId)].balance
OwnerOf(accts, accountId) == accts[AcctIdx(accts, accountId)].userId
Owns(accts, user, accountId) ==
    Find(accts, LAMBDA acct : acct.id = accountId /\ acct.userId = user) # 0

\* the last call was made on a stored transfer by a signed-in caller
OnTransfer(r) == r.caller # NoUser /\ r.tid \in DOMAIN transfers

-----------------------------------------------------------------------------
(* C1: a confirm call succeeds, and a transfer is COMPLETED, only when a     *)
(* verifyOtp call on the same transferId has succeeded before.               *)
C1_ConfirmOnlyAfterVerify ==
    /\ \A t \in DOMAIN transfers : transfers[t].status = "COMPLETED" => t \in verifiedOnce
    /\ (resp.op = "confirm" /\ resp.err = "") =>
           /\ resp.tid \in verifiedOnce
           /\ transfers[resp.tid].status = "COMPLETED"

\* a confirm has just completed a transfer on which a wrong passcode was also tried
C1_Witness ==
    /\ resp.op = "confirm" /\ resp.err = ""
    /\ transfers[resp.tid].status = "COMPLETED"
    /\ wrongTotal[resp.tid] > 0

(* C2 as written: every successful confirm whose source and destination are  *)
(* internal accounts, the same account included, lowers the source balance   *)
(* by the amount, raises the destination balance by the amount and keeps     *)
(* their sum.                                                                *)
C2_EveryInternalConfirmMovesAmount ==
    [][(Step("confirm") /\ resp'.err = "" /\ Internal(accounts, transfers[resp'.tid].toAccountId)) =>
          LET t == transfers[resp'.tid]
          IN  /\ Balance(accounts', t.fromAccountId) = Balance(accounts, t.fromAccountId) - t.amount
              /\ Balance(accounts', t.toAccountId) = Balance(accounts, t.toAccountId) + t.amount
              /\ Balance(accounts', t.fromAccountId) + Balance(accounts', t.toAccountId)
                     = Balance(accounts, t.fromAccountId) + Balance(accounts, t.toAccountId)]_vars

(* C2, amended: a successful confirm between two different internal accounts *)
(* (of one user or of two) lowers the source by the amount, raises the       *)
(* destination by the amount and keeps their sum; a successful confirm from  *)
(* an account to itself leaves its balance as it was.                        *)
C2_ZeroSum ==
    [][(Step("confirm") /\ resp'.err = "" /\ Internal(accounts, transfers[resp'.tid].toAccountId)) =>
          LET t == transfers[resp'.tid]
          IN  IF t.fromAccountId # t.toAccountId
              THEN /\ Balance(accounts', t.fromAccountId) = Balance(accounts, t.fromAccountId) - t.amount
                   /\ Balance(accounts', t.toAccountId) = Balance(accounts, t.toAccountId) + t.amount
                   /\ Balance(accounts', t.fromAccountId) + Balance(accounts', t.toAccountId)
                          = Balance(accounts, t.fromAccountId) + Balance(accounts, t.toAccountId)
              ELSE Balance(accounts', t.fromAccountId) = Balance(accounts, t.fromAccountId)]_vars

\* a confirm has just moved money into an account of another user
C2_Witness ==
    /\ resp.op = "confirm" /\ resp.err = ""
    /\ LET t == transfers[resp.tid]
       IN  /\ Internal(accounts, t.toAccountId)
           /\ OwnerOf(accounts, t.toAccountId) # t.userId
           /\ Balance(accounts, t.fromAccountId) = 0
           /\ Balance(accounts, t.toAccountId) = SeedBalance1

(* C3 as written: once 5 verifyOtp calls on a transfer have failed with a    *)
(* wrong code, counted over the life of the transfer, every later verifyOtp  *)
(* call of a signed-in caller on it fails with OTP_LOCKED.                   *)
C3_LockedForLife ==
    [][(Step("verifyOtp") /\ OnTransfer(resp') /\ wrongTotal[resp'.tid] >= OTP_MAX_ATTEMPTS) =>
          resp'.err = "OTP_LOCKED"]_vars

(* C3, amended: once 5 verifyOtp calls have failed with a wrong code on the  *)
(* transfer's current challenge, every later verifyOtp call on that          *)
(* challenge fails whatever code is supplied and changes nothing: with       *)
(* OTP_LOCKED up to and at expiresAt, with OTP_EXPIRED after it.  Only a new *)
(* sendOtp, which stores a fresh challenge, ends the lock.                   *)
C3_LockedWithinChallenge ==
    [][(/\ Step("verifyOtp") /\ OnTransfer(resp')
        /\ transfers[resp'.tid].otp # <<>>
        /\ transfers[resp'.tid].otp[1].attempts >= OTP_MAX_ATTEMPTS) =>
          /\ resp'.err = IF now <= transfers[resp'.tid].otp[1].expiresAt
                         THEN "OTP_LOCKED" ELSE "OTP_EXPIRED"
          /\ transfers' = transfers]_vars

\* a verifyOtp call with a wrong code has just been turned away as locked
C3_Witness ==
    /\ resp.op = "verifyOtp" /\ resp.err = "OTP_LOCKED"
    /\ transfers[resp.tid].otp[1].attempts = OTP_MAX_ATTEMPTS
    /\ resp.arg # transfers[resp.tid].otp[1].code

(* C4: a challenge sent at t expires exactly at t + 5 minutes: verifyOtp at  *)
(* now >= expiresAt fails with OTP_EXPIRED even with the right code, and     *)
(* verifyOtp with the right code at now < expiresAt, fewer than 5 attempts   *)
(* counted, succeeds.                                                        *)
C4_ExpiresExactlyAtTtl ==
    [][/\ (Step("sendOtp") /\ resp'.err = "") =>
              transfers'[resp'.tid].otp[1].expiresAt = now + 5 * 60 * 1000
       /\ (Step("verifyOtp") /\ OnTransfer(resp') /\ transfers[resp'.tid].otp # <<>>) =>
              LET otp == transfers[resp'.tid].otp[1]
              IN  /\ now >= otp.expiresAt => resp'.err = "OTP_EXPIRED"
                  /\ (now < otp.expiresAt /\ otp.attempts < 5 /\ resp'.arg = otp.code) =>
                         resp'.err = ""]_vars

(* C5: the status of a stored transfer changes only forward, PENDING_OTP to  *)
(* VERIFIED by a successful verifyOtp and VERIFIED to COMPLETED by a         *)
(* successful confirm; it never moves backward.                              *)
C5_StatusOnlyForward ==
    [][\A t \in DOMAIN transfers :
          transfers'[t].status # transfers[t].status =>
              \/ /\ transfers[t].status = "PENDING_OTP" /\ transfers'[t].status = "VERIFIED"
                 /\ Step("verifyOtp") /\ resp'.err = "" /\ resp'.tid = t
              \/ /\ transfers[t].status = "VERIFIED" /\ transfers'[t].status = "COMPLETED"
                 /\ Step("confirm") /\ resp'.err = "" /\ resp'.tid = t]_vars

(* C6: whatever accountId filter a signed-in caller gives, every transaction *)
(* the listing returns belongs to an account the caller owns.                *)
C6_ListingOnlyOwnAccounts ==
    (resp.op = "transactions" /\ resp.err = "") =>
        \A i \in 1..Len(resp.out) : Owns(accounts, resp.caller, resp.out[i].accountId)

(* C7: confirm checks the funds again: called by its owner on a VERIFIED     *)
(* transfer whose amount is above the source account's balance of that       *)
(* moment, it fails with INSUFFICIENT_FUNDS; and whoever calls it on such a  *)
(* transfer, it fails and leaves balances, transactions and the transfer as  *)
(* they were.                                                                *)
C7_ConfirmRechecksFunds ==
    [][(/\ Step("confirm") /\ resp'.tid \in DOMAIN transfers
        /\ transfers[resp'.tid].status = "VERIFIED"
        /\ Internal(accounts, transfers[resp'.tid].fromAccountId)
        /\ transfers[resp'.tid].amount > Balance(accounts, transfers[resp'.tid].fromAccountId)) =>
          /\ resp'.err # ""
          /\ Owns(accounts, resp'.caller, transfers[resp'.tid].fromAccountId) =>
                 resp'.err = "INSUFFICIENT_FUNDS"
          /\ accounts' = accounts /\ transactions' = transactions /\ transfers' = transfers]_vars

\* a verified transfer has just been refused because an earlier confirm drained its source
C7_Witness ==
    /\ resp.op = "confirm" /\ resp.err = "INSUFFICIENT_FUNDS"
    /\ transfers[resp.tid].status = "VERIFIED"
    /\ transfers[resp.tid].amount = SeedBalance1
    /\ Balance(accounts, transfers[resp.tid].fromAccountId) = 0
    /\ \E t \in DOMAIN transfers : transfers[t].status = "COMPLETED"

(* C8: initiate of a signed-in caller, with every field given and a source   *)
(* account of the caller, fails with INSUFFICIENT_FUNDS when the amount is   *)
(* above the balance; and every failing initiate creates no transfer and     *)
(* changes nothing else.                                                     *)
C8_FailedInitiateCreatesNothing ==
    [][Step("initiate") =>
          LET from == resp'.arg[1]
              to == resp'.arg[2]
              amount == resp'.arg[3]
          IN  /\ (/\ resp'.caller # NoUser /\ to # "" /\ amount # 0
                  /\ Owns(accounts, resp'.caller, from)
                  /\ amount > Balance(accounts, from)) => resp'.err = "INSUFFICIENT_FUNDS"
              /\ resp'.err \in {"", "UNAUTHORIZED", "VALIDATION", "ACCOUNT_NOT_FOUND", "INSUFFICIENT_FUNDS"}
              /\ resp'.err # "" => (transfers' = transfers /\ state' = state)]_vars

\* an initiate for more than the balance has just been refused, and no transfer is stored
C8_Witness ==
    /\ resp.op = "initiate" /\ resp.err = "INSUFFICIENT_FUNDS"
    /\ resp.arg[3] > Balance(accounts, resp.arg[1])
    /\ transfers = <<>>

(* C9 as written, for amounts other than 0: a transfer whose amount equals   *)
(* the source balance passes both checks, and its confirm leaves the source  *)
(* balance at exactly 0.                                                     *)
C9_AmountEqualBalanceLeavesZero ==
    [][/\ (/\ Step("initiate") /\ resp'.caller # NoUser /\ resp'.arg[2] # ""
           /\ Owns(accounts, resp'.caller, resp'.arg[1])
           /\ resp'.arg[3] # 0
           /\ resp'.arg[3] = Balance(accounts, resp'.arg[1])) =>
              (resp'.err = "" /\ transfers'[resp'.tid].status = "PENDING_OTP")
       /\ (/\ Step("confirm") /\ resp'.tid \in DOMAIN transfers
           /\ transfers[resp'.tid].status = "VERIFIED"
           /\ Owns(accounts, resp'.caller, transfers[resp'.tid].fromAccountId)
           /\ transfers[resp'.tid].amount = Balance(accounts, transfers[resp'.tid].fromAccountId)) =>
              (resp'.err = "" /\ Balance(accounts', transfers[resp'.tid].fromAccountId) = 0)]_vars

(* C9, amended: a transfer whose amount equals the source balance and is not *)
(* zero passes both checks: initiate succeeds with PENDING_OTP, and confirm  *)
(* of the verified transfer succeeds; it leaves the source balance at        *)
(* exactly 0 when the destination is another account or an external one,     *)
(* and as it was when the destination is the source account itself.  (An     *)
(* amount of 0, equal to a balance of 0, is refused by initiate as a missing *)
(* field.)                                                                   *)
C9_AmountEqualBalanceAllowed ==
    [][/\ (/\ Step("initiate") /\ resp'.caller # NoUser /\ resp'.arg[2] # ""
           /\ Owns(accounts, resp'.caller, resp'.arg[1])
           /\ resp'.arg[3] = Balance(accounts, resp'.arg[1])) =>
              IF resp'.arg[3] # 0
              THEN resp'.err = "" /\ transfers'[resp'.tid].status = "PENDING_OTP"
              ELSE resp'.err = "VALIDATION"
       /\ (/\ Step("confirm") /\ resp'.tid \in DOMAIN transfers
           /\ transfers[resp'.tid].status = "VERIFIED"
           /\ Owns(accounts, resp'.caller, transfers[resp'.tid].fromAccountId)
           /\ transfers[resp'.tid].amount = Balance(accounts, transfers[resp'.tid].fromAccountId)) =>
              /\ resp'.err = ""
              /\ transfers'[resp'.tid].status = "COMPLETED"
              /\ Balance(accounts', transfers[resp'.tid].fromAccountId) =
                     IF transfers[resp'.tid].toAccountId # transfers[resp'.tid].fromAccountId
                     THEN 0 ELSE transfers[resp'.tid].amount]_vars

\* a confirm of the whole balance has just left the source account at 0
C9_Witness ==
    /\ resp.op = "confirm" /\ resp.err = ""
    /\ transfers[resp.tid].amount = SeedBalance1
    /\ transfers[resp.tid].fromAccountId = "acct-1"
    /\ transfers[resp.tid].toAccountId = "acct-2"
    /\ Balance(accounts, "acct-1") = 0
    /\ Balance(accounts, "acct-2") = SeedBalance1 + SeedBalance2

(* C10: on a challenge that has not expired, each verifyOtp call with a      *)
(* wrong code while fewer than 5 are counted fails with OTP_INVALID and      *)
(* raises the counter by exactly 1; once 5 are counted the next call fails   *)
(* with OTP_LOCKED even with the right code and counts nothing; the counter  *)
(* of a challenge never exceeds 5.                                           *)
C10_FiveAttempts ==
    [][/\ \A t \in DOMAIN transfers' :
              transfers'[t].otp # <<>> => transfers'[t].otp[1].attempts \in 0..5
       /\ (/\ Step("verifyOtp") /\ OnTransfer(resp')
           /\ transfers[resp'.tid].otp # <<>>
           /\ now < transfers[resp'.tid].otp[1].expiresAt) =>
              LET otp == transfers[resp'.tid].otp[1]
                  otpAfter == transfers'[resp'.tid].otp[1]
              IN  /\ (otp.attempts < 5 /\ resp'.arg # otp.code) =>
                         (resp'.err = "OTP_INVALID" /\ otpAfter.attempts = otp.attempts + 1)
                  /\ otp.attempts >= 5 =>
                         (resp'.err = "OTP_LOCKED" /\ otpAfter.attempts = otp.attempts)
                  /\ otpAfter.code = otp.code /\ otpAfter.expiresAt = otp.expiresAt]_vars

\* the sixth call, made with the right code before the challenge expires, has just been refused
C10_Witness ==
    /\ resp.op = "verifyOtp" /\ resp.err = "OTP_LOCKED"
    /\ wrongTotal[resp.tid] = 5
    /\ transfers[resp.tid].otp[1].attempts = 5
    /\ resp.arg = transfers[resp.tid].otp[1].code
    /\ now < transfers[resp.tid].otp[1].expiresAt
    /\ transfers[resp.tid].status = "PENDING_OTP"

(* C11: register with an email of a stored user fails, with EMAIL_IN_USE    *)
(* when a password is given (with VALIDATION when it is missing), and leaves *)
(* users, accounts and tokens as they were; no two stored users ever share   *)
(* an email.                                                                 *)
C11_DuplicateEmailRefused ==
    [][/\ (Step("register") /\ Find(users, LAMBDA u : u.email = resp'.arg[1]) # 0) =>
              /\ resp'.err = IF resp'.arg[2] # "" THEN "EMAIL_IN_USE" ELSE "VALIDATION"
              /\ users' = users /\ accounts' = accounts /\ tokens' = tokens
       /\ \A i, j \in 1..Len(users') : users'[i].email = users'[j].email => i = j]_vars

\* an email registered in this session has just been refused at a second register
C11_Witness ==
    /\ resp.op = "register" /\ resp.err = "EMAIL_IN_USE"
    /\ resp.arg[1] = "new@bank.test"
    /\ Len(users) = 2 /\ Len(accounts) = 3

C13_AnyCredentialsSignIn ==
    [][(Step("login") /\ loginFormAccepts(resp'.arg[1], resp'.arg[2])) =>
          (resp'.err = "" /\ resp'.out \in DOMAIN tokens')]_vars

\* a step that is one authenticated call made with the given token
CallWith(tok) ==
    /\ now' = now
    /\ CASE resp'.op = "me" -> Me(tok)
         [] resp'.op = "accounts" -> Accounts(tok)
         [] resp'.op = "transactions" -> Transactions(tok, resp'.arg)
         [] resp'.op = "initiate" -> Initiate(tok, resp'.arg[1], resp'.arg[2], resp'.arg[3])
         [] resp'.op = "sendOtp" -> \E code \in Codes : SendOtp(tok, resp'.tid, code)
         [] resp'.op = "verifyOtp" -> VerifyOtp(tok, resp'.tid, resp'.arg)
         [] resp'.op = "confirm" -> Confirm(tok, resp'.tid)
         [] OTHER -> FALSE

(* C14: a token is never expired or revoked by the store: the token that    *)
(* register or login returns is mapped to its user, every step leaves every  *)
(* issued token mapped to the same stored user, every authenticated call     *)
(* made with an issued token passes requireAuth as that user, and a call     *)
(* made with a token that was never issued fails with UNAUTHORIZED.          *)
C14_TokenNeverRevoked ==
    [][/\ \A t \in DOMAIN tokens :
              /\ t \in DOMAIN tokens' /\ tokens'[t] = tokens[t]
              /\ Find(users', LAMBDA u : u.id = tokens[t]) # 0
       /\ ((Step("register") \/ Step("login")) /\ resp'.err = "") =>
              (resp'.out \in DOMAIN tokens' /\ tokens'[resp'.out] = resp'.caller)
       /\ \A tok \in Tokens :
              CallWith(tok) =>
                  IF tok \in DOMAIN tokens
                  THEN resp'.err # "UNAUTHORIZED" /\ resp'.caller = tokens[tok]
                  ELSE resp'.err = "UNAUTHORIZED" /\ state' = state]_vars

\* after a second user has signed in and a transfer was made, the first token still answers me
C14_Witness ==
    /\ resp.op = "me" /\ resp.err = "" /\ resp.caller = "user-1"
    /\ DOMAIN tokens = {"token-1", "token-2"}
    /\ tokens["token-1"] = "user-1" /\ tokens["token-2"] = "user-2"
    /\ transfers # <<>>

(* C15: every failing sendOtp, verifyOtp or confirm call fails with one of  *)
(* the eight error codes and leaves every transfer's status, every balance   *)
(* and the transaction list as they were; the only thing a failing call      *)
(* writes is the attempt counter, raised by a wrong code.                    *)
C15_FailedStepKeepsState ==
    [][((Step("sendOtp") \/ Step("verifyOtp") \/ Step("confirm")) /\ resp'.err # "") =>
          /\ resp'.err \in {"UNAUTHORIZED", "TRANSFER_NOT_FOUND", "OTP_EXPIRED", "OTP_LOCKED",
                             "OTP_INVALID", "OTP_REQUIRED", "ACCOUNT_NOT_FOUND", "INSUFFICIENT_FUNDS"}
          /\ accounts' = accounts /\ transactions' = transactions
          /\ users' = users /\ tokens' = tokens
          /\ DOMAIN transfers' = DOMAIN transfers
          /\ \A t \in DOMAIN transfers :
                 /\ transfers'[t].status = transfers[t].status
                 /\ IF resp'.err = "OTP_INVALID" /\ t = resp'.tid
                    THEN transfers'[t] = [transfers[t] EXCEPT !.otp[1].attempts = @ + 1]
                    ELSE transfers'[t] = transfers[t]]_vars

\* a wrong code has just been refused on a verified transfer, which is still VERIFIED
C15_Witness ==
    /\ resp.op = "verifyOtp" /\ resp.err = "OTP_INVALID"
    /\ transfers[resp.tid].status = "VERIFIED"
    /\ transfers[resp.tid].otp[1].attempts > 0

(* C16: balances change only through a successful confirm: every other     *)
(* call, successful or failing, leaves every existing account as it was,     *)
(* and a successful confirm changes no account other than the transfer's     *)
(* source and destination.                                                   *)
C16_BalancesChangeOnlyByConfirm ==
    [][/\ Len(accounts') >= Len(accounts)
       /\ \A i \in 1..Len(accounts) :
              IF Step("confirm") /\ resp'.err = ""
              THEN LET t == transfers[resp'.tid]
                   IN  accounts[i].id \notin {t.fromAccountId, t.toAccountId} =>
                           accounts'[i] = accounts[i]
              ELSE accounts'[i] = accounts[i]]_vars

\* a confirm between acct-1 and acct-2 has just succeeded beside a third account, still at 0
C16_Witness ==
    /\ resp.op = "confirm" /\ resp.err = ""
    /\ transfers[resp.tid].fromAccountId = "acct-1"
    /\ transfers[resp.tid].toAccountId = "acct-2"
    /\ Len(accounts) = 3 /\ Balance(accounts, "acct-3") = 0
    /\ Balance(accounts, "acct-1") # SeedBalance1

(* C17: the debit and credit of a confirm are atomic for every caller: with *)
(* calls in flight together and resumed in any order, every state another    *)
(* call can read, and every accounts listing returned, has each transfer     *)
(* either not applied at all or applied in full: source debited,             *)
(* destination credited, record appended and status COMPLETED.               *)
C17_ConfirmIsAtomic ==
    LET moved(t) == IF transfers[t].status = "COMPLETED" THEN transfers[t].amount ELSE 0
        total == moved("transfer-1") + moved("transfer-2")
        done == {t \in DOMAIN transfers : transfers[t].status = "COMPLETED"}
    IN  /\ Balance(accounts, "acct-1") = SeedBalance1 - total
        /\ Balance(accounts, "acct-2") = SeedBalance2 + total
        /\ Len(transactions) = Len(SeedTransactions) + Cardinality(done)
        /\ \A t \in done : \E i \in 1..Len(transactions) :
               /\ i > Len(SeedTransactions)
               /\ transactions[i].accountId = "acct-1"
               /\ transactions[i].amount = -transfers[t].amount
        /\ (resp.op = "accounts" /\ resp.err = "") =>
               /\ Len(resp.out) = 2
               /\ resp.out[1].balance + resp.out[2].balance = SeedBalance1 + SeedBalance2
               /\ SeedBalance1 - resp.out[1].balance \in {0, 1, SeedBalance1}

\* a confirm has just completed while a listing and another confirm were suspended
C17_Witness ==
    /\ resp.op = "confirm" /\ resp.err = ""
    /\ transfers[resp.tid].status = "COMPLETED"
    /\ Len(inflight) = 2
    /\ inflight[1].op = "confirm" /\ inflight[1].arg[1] # resp.tid
    /\ inflight[2].op = "accounts"

\* C18: whatever apiRequest throws has the fixed shape {errorCode, message,
\* requestId} with the three fields non-empty; a failure a handler raised with
\* an errorCode keeps that code, and any other fault carries CONTACT_OFFICER.
\* (Refuted by apiRequest(null): the TypeError of taking the argument apart is
\* thrown before the try block and reaches the caller as it is.)
C18_EveryFailureIsNormalized ==
    resp.thrown # <<>> =>
        LET error == resp.thrown[1]
        IN  /\ error.errorCode # "" /\ error.message # "" /\ error.requestId # ""
            /\ resp.op = "apiRequest" => error.errorCode = "CONTACT_OFFICER"
            /\ resp.op # "apiRequest" => error.errorCode = resp.err

\* the last call was initiate by a signed-in caller from an account of theirs
\* to a destination that was given
InitiateFromOwn ==
    /\ Step("initiate") /\ resp'.caller # NoUser
    /\ Owns(accounts, resp'.caller, resp'.arg[1]) /\ resp'.arg[2] # ""

\* the call stored a new PENDING_OTP transfer of the amount it was given
CreatedPending ==
    /\ resp'.err = "" /\ resp'.tid \notin DOMAIN transfers /\ resp'.tid \in DOMAIN transfers'
    /\ transfers'[resp'.tid].status = "PENDING_OTP"
    /\ transfers'[resp'.tid].amount = resp'.arg[3]

\* C19 (as amended): initiate does not look at the sign of the amount: by a
\* signed-in caller, from an account of theirs, to a given destination, a
\* negative amount that does not exceed the source balance is accepted and
\* stored as a PENDING_OTP transfer of that amount (one above a balance that
\* is lower still is refused with INSUFFICIENT_FUNDS like any other); an
\* amount of zero counts as a missing field and is refused with VALIDATION,
\* no transfer stored.
C19_NegativeAcceptedZeroRefused ==
    [][InitiateFromOwn =>
           /\ resp'.arg[3] < 0 /\ resp'.arg[3] <= Balance(accounts, resp'.arg[1]) => CreatedPending
           /\ resp'.arg[3] < 0 /\ resp'.arg[3] > Balance(accounts, resp'.arg[1]) =>
                  resp'.err = "INSUFFICIENT_FUNDS" /\ transfers' = transfers
           /\ resp'.arg[3] = 0 => resp'.err = "VALIDATION" /\ transfers' = transfers]_vars

C19_Witness ==
    /\ resp.op = "initiate" /\ resp.err = "" /\ resp.arg[3] < 0
    /\ resp.tid \in DOMAIN transfers /\ transfers[resp.tid].amount < 0

\* C19 (as stated): an amount of zero or below is accepted and stored
C19_ZeroOrNegativeAccepted ==
    [][InitiateFromOwn /\ resp'.arg[3] <= 0 => CreatedPending]_vars

\* a transfer record without its challenge
withoutOtp(transfer) == [transfer EXCEPT !.otp = <<>>]

\* C20: a successful sendOtp, whatever the status of the transfer, stores a
\* challenge with the code it returns, 0 attempts and an expiry 5 minutes
\* after the call; the rest of that transfer (status, amount, account ids),
\* every other transfer, all balances and all transactions stay as they were.
\* On a transferId that is not stored the call fails and changes nothing: with
\* TRANSFER_NOT_FOUND for a signed-in caller (requireAuth, which every
\* operation passes first, answers UNAUTHORIZED otherwise).
C20_SendOtpReplacesChallengeOnly ==
    [][Step("sendOtp") =>
           /\ resp'.err = "" =>
                  /\ resp'.tid \in DOMAIN transfers
                  /\ transfers'[resp'.tid].otp =
                         <<[code |-> resp'.out, attempts |-> 0, expiresAt |-> now + 5 * 60 * 1000]>>
                  /\ withoutOtp(transfers'[resp'.tid]) = withoutOtp(transfers[resp'.tid])
                  /\ transfers'[resp'.tid].status \in {"PENDING_OTP", "VERIFIED", "COMPLETED"}
                  /\ \A tid \in DOMAIN transfers \ {resp'.tid} : transfers'[tid] = transfers[tid]
                  /\ DOMAIN transfers' = DOMAIN transfers
                  /\ accounts' = accounts /\ transactions' = transactions
           /\ resp'.tid \notin DOMAIN transfers =>
                  /\ resp'.err = IF resp'.caller # NoUser THEN "TRANSFER_NOT_FOUND" ELSE "UNAUTHORIZED"
                  /\ UNCHANGED state]_vars

\* a COMPLETED transfer whose challenge, after wrong codes earlier on, has been
\* replaced at a later time
C20_Witness ==
    /\ resp.op = "sendOtp" /\ resp.err = "" /\ resp.tid \in DOMAIN transfers
    /\ transfers[resp.tid].status = "COMPLETED"
    /\ wrongTotal[resp.tid] > 0 /\ now > 0
    /\ transfers[resp.tid].otp = <<newOtp(resp.out, now)>>

\* C21: the transaction list is append-only.  Every step keeps the records
\* it had, in their order and unmodified (the listing sorts a copy); a
\* successful confirm appends exactly one record, for the transfer's source
\* account and of the negated transfer amount; no other call appends.
C21_TransactionsAppendOnly ==
    [][/\ Len(transactions') >= Len(transactions)
       /\ SubSeq(transactions', 1, Len(transactions)) = transactions
       /\ Step("confirm") /\ resp'.err = "" =>
              /\ Len(transactions') = Len(transactions) + 1
              /\ transactions'[Len(transactions')].accountId = transfers[resp'.tid].fromAccountId
              /\ transactions'[Len(transactions')].amount = -transfers[resp'.tid].amount
       /\ transactions' # transactions => resp'.op = "confirm" /\ resp'.err = ""]_vars

\* a confirm has appended its record behind the seeded ones, and the listing
\* has since been asked for
C21_Witness ==
    /\ resp.op = "transactions" /\ resp.err = "" /\ Len(resp.out) > 1
    /\ Len(transactions) = Len(SeedTransactions) + 1
    /\ SubSeq(transactions, 1, Len(SeedTransactions)) = SeedTransactions
    /\ transactions[Len(transactions)].amount < 0
    /\ resp.out[1].id = transactions[Len(transactions)].id

\* C22: over all the handleFailure calls of a page session, overlapping ones
\* included, the request for /shared/officer-contact.json is issued at most
\* once.
\* (Refuted by two failures begun before the first lookup has come back: each
\* finds cachedOfficerContact null and issues its own request.)
C22_OfficerFetchedOnce == fetches <= 1

\* C23: a transfer moves its amount at most once.  With one transfer stored,
\* of acct-1: at most one record has been appended to the transaction list
\* and acct-1 has been debited by at most the transfer's amount.
\* (Refuted by verifyOtp on the COMPLETED transfer, which sets it back to
\* VERIFIED, and a second confirm.)
C23_ConfirmedAtMostOnce ==
    DOMAIN transfers = {"transfer-1"} =>
        /\ Len(transactions) <= Len(SeedTransactions) + 1
        /\ SeedBalance1 - Balance(accounts, "acct-1") <= transfers["transfer-1"].amount

\* C24: only the user who initiated a transfer advances it.  A sendOtp,
\* verifyOtp or confirm call on a stored transfer by a signed-in user other
\* than its initiator fails, returns no passcode, and leaves the transfer's
\* challenge and status and all balances as they were.
\* (Refuted by sendOtp with the other user's token: it stores a new challenge
\* and returns its code; verifyOtp with that code then sets VERIFIED.)
C24_OnlyInitiatorAdvances ==
    [][/\ now' = now /\ resp'.op \in {"sendOtp", "verifyOtp", "confirm"}
       /\ resp'.tid \in DOMAIN transfers
       /\ resp'.caller # NoUser /\ resp'.caller # transfers[resp'.tid].userId
       => /\ resp'.err # "" /\ resp'.out = ""
          /\ transfers'[resp'.tid].otp = transfers[resp'.tid].otp
          /\ transfers'[resp'.tid].status = transfers[resp'.tid].status
          /\ accounts' = accounts]_vars

\* C25: no account balance ever becomes negative, whatever bodies the calls
\* carry.
\* (Refuted by a transfer of a negative amount to another account: initiate
\* and confirm only test amount > balance, the debit raises the source and
\* the credit lowers the destination below zero.)
C25_BalancesNeverNegative ==
    \A i \in 1..Len(accounts) : accounts[i].balance >= 0

\* C26: of the confirm calls on one transfer that are in flight together, at
\* most one succeeds.  A confirm that resumes on a VERIFIED transfer whose
\* funds suffice debits the source once and appends one record; a confirm
\* that resumes once the transfer is COMPLETED fails with OTP_REQUIRED and
\* changes nothing, though the transfer was VERIFIED when the call read it.
C26_OneOfTwoConfirmsSucceeds ==
    [][/\ Len(inflight') < Len(inflight)
       /\ Step("confirm") /\ resp'.caller # NoUser /\ resp'.tid \in DOMAIN transfers
       =>  /\ transfers[resp'.tid].status = "COMPLETED" =>
                  resp'.err = "OTP_REQUIRED" /\ UNCHANGED state
           /\ resp'.err = "" =>
                  /\ transfers[resp'.tid].status = "VERIFIED"
                  /\ transfers'[resp'.tid].status = "COMPLETED"
                  /\ Balance(accounts', "acct-1") = Balance(accounts, "acct-1") - transfers[resp'.tid].amount
                  /\ Len(transactions') = Len(transactions) + 1]_vars

\* one of two confirm calls that read the same VERIFIED transfer has
\* completed it; the other is still suspended
C26_Witness ==
    /\ resp.op = "confirm" /\ resp.err = ""
    /\ transfers[resp.tid].status = "COMPLETED"
    /\ \E i \in 1..Len(inflight) :
           /\ inflight[i].op = "confirm"
           /\ inflight[i].arg = <<resp.tid, "VERIFIED">>

\* the sum of the amounts of the records of one account among the records
\* from position first on
RECURSIVE recordedSince(_, _, _)
recordedSince(txs, first, accountId) ==
    IF first > Len(txs) THEN 0
    ELSE (IF txs[first].accountId = accountId THEN txs[first].amount ELSE 0)
         + recordedSince(txs, first + 1, accountId)

\* the balance an account had at page load, 0 for one opened by register
openingBalance(accountId) ==
    IF Internal(SeedAccounts, accountId) THEN Balance(SeedAccounts, accountId) ELSE 0

\* C27: for every account, the balance has moved from its opening value by
\* the sum of the records appended for that account since the page load.
\* (Refuted by a confirmed transfer between two accounts of the bank: the
\* destination is credited and no record is written for it.)
C27_LedgerMatchesHistory ==
    \A i \in 1..Len(accounts) :
        accounts[i].balance - openingBalance(accounts[i].id)
            = recordedSince(transactions, Len(SeedTransactions) + 1, accounts[i].id)

\* the (path, method) pairs the page modules pass to apiRequest: dashboard,
\* transactions, transfer form, notifications, profile
PageCalls ==
    {<<"/accounts", "GET">>, <<"/transactions", "GET">>, <<"/transfers", "POST">>,
     <<"/notifications", "GET">>, <<"/notifications/mark-read", "POST">>,
     <<"/notifications/mark-all-read", "POST">>, <<"/profile", "GET">>}

\* the method a call is routed with: "GET" when left out, else in upper case
methodSent(options) ==
    IF options.method = "undefined" THEN "GET" ELSE toUpperCase(options.method)

\* C28: a call with a (path, method) pair that a page module uses never ends
\* in the unknown-endpoint failure.
\* (Refuted by POST /transfers, GET /profile and the three notification
\* calls: the switch has no case for them.)
C28_PageCallsAreRouted ==
    (/\ resp.op = "apiRequest" /\ resp.arg.kind = "object" /\ resp.arg.path.kind = "string"
     /\ <<pathText(resp.arg.path), methodSent(resp.arg)>> \in PageCalls)
    => resp.thrown[1].message # "Unknown endpoint: " \o pathText(resp.arg.path)

\* C29: a login survives the redirect it triggers, and a registration the
\* redirect to the login page.  The dashboard's GET /accounts with the token
\* a successful login stored is not refused by requireAuth, and a login with
\* credentials that register has accepted is not refused.
\* (Refuted: the page load after the redirect builds mockState anew, without
\* the token and without the registered user.)
C29_LoginSurvivesRedirect ==
    /\ page = "dashboard.html" /\ resp.op = "accounts" => resp.err # "UNAUTHORIZED"
    /\ resp.op = "login" /\ resp.arg \in registered => resp.err = ""

\* C30: after any sequence of openModal and closeModal calls and of closes
\* by Escape or an overlay click, at most one overlay is mounted in the modal
\* root, the document has a keydown listener of the modal exactly when one is
\* mounted (its own, once), and body scrolling is locked exactly then.
C30_ModalStateConsistent ==
    LET open == document.children # <<>>
    IN  /\ Len(document.children) <= 1
        /\ open <=> currentOverlay # 0
        /\ document.keydown = document.children
        /\ open => document.children = <<currentOverlay>>
        /\ document.overflow = (IF open THEN "hidden" ELSE "")

\* a second modal has been opened while the first was open
C30_Witness ==
    /\ resp.op = "openModal" /\ resp.out = 1
    /\ currentOverlay = 2
    /\ document.children = <<2>> /\ document.keydown = <<2>> /\ document.overflow = "hidden"

====
